---- MODULE Spec2Model ----
(***************************************************************************)
(* Real-time voice session manager of ECOS-SDK-openai:                     *)
(*   VoiceChat        (client/src/components/VoiceChat.tsx)                *)
(*   VoiceCommand     (unnamed/part_001)                                   *)
(*   PatientSimulator (unnamed/part_000), the conversation log             *)
(* Every start sequence (startVoiceChat / startVoice) is a flow; flow k    *)
(* creates the browser objects number k (peer connection, data channel,    *)
(* microphone stream, playback element).  A ref holds an object number, or *)
(* 0 for null.                                                             *)
(***************************************************************************)
EXTENDS Integers, Sequences, FiniteSets, TLC

\* ---------------------------------------------------------------- bounds
MaxStarts == 2      \* start sequences per component instance
MaxLog == 3         \* entries of the conversation log beside the welcome message
MaxVoiceLog == 2    \* transcript entries while the session lifecycle is explored
MaxTicks == 2       \* advances of the wall clock

Objs == 1..MaxStarts
Null == 0

VARIABLES
    mounted,            \* which component the page mounts
    userId,             \* the userId prop of the component, "" when it is empty
    apiKey,             \* the server's process.env.OPENAI_API_KEY, "" when unset
    response,           \* the answer to the credential request of start sequence k
    alive,              \* the component has not been unmounted
    now,                \* the wall clock, in ms (new Date(), Date.now())
    \* browser objects, by number
    pc,                 \* RTCPeerConnection.connectionState, "none" before creation
    dc,                 \* RTCDataChannel.readyState, "none" before creation
    stream,             \* getUserMedia stream: "none", "live", "stopped"
    audio,              \* playback of the remote track: "none", "playing", "paused"
    sent,               \* the messages sent on data channel k, in order
    credential,         \* the /api/rtc-token response start sequence k received
    flow,               \* the await at which start sequence k is suspended
    nStarts,            \* start sequences begun so far
    \* VoiceChat
    state, error, transcript,
    peerConnectionRef, localStreamRef, audioOutputRef, dataChannelRef,
    isMuted, isOutputMuted,
    enabled,            \* MediaStreamTrack.enabled of the audio track of stream k
    muted,              \* HTMLAudioElement.muted of playback element k
    captured,           \* isOutputMuted in the render whose startVoiceChat is sequence k
    \* VoiceCommand
    status, isActive, pcRef, micStreamRef, dcRef,
    \* PatientSimulator
    messages, isLoading, sessionStatus, progress,
    reply,              \* the /api/ecos/chat request in flight or the reply timer
    ticks,              \* advances of the clock so far
    \* history: the last operation
    last

browserVars == <<pc, dc, stream, audio, sent>>
chatVars == <<state, error, transcript, peerConnectionRef, localStreamRef,
              audioOutputRef, dataChannelRef>>
muteVars == <<isMuted, isOutputMuted, enabled, muted, captured>>
cmdVars == <<status, isActive, pcRef, micStreamRef, dcRef>>
simVars == <<messages, isLoading, sessionStatus, progress, reply>>
vars == <<mounted, userId, apiKey, response, alive, now, pc, dc, stream, audio, sent, credential, flow, nStarts,
          state, error, transcript, peerConnectionRef, localStreamRef,
          audioOutputRef, dataChannelRef, isMuted, isOutputMuted, enabled, muted, captured,
          status, isActive, pcRef, micStreamRef, dcRef,
          messages, isLoading, sessionStatus, progress, reply, ticks, last>>

\* ------------------------------------------------- control-channel payloads
Texts == {"Bonjour", "Merci"}

\* The event types of the taxonomy, and two types outside it.
EventTypes == {
    "response.audio_transcript.delta",
    "response.audio_transcript.done",
    "conversation.item.input_audio_transcription.completed",
    "response.audio.delta",
    "input_audio_buffer.speech_started",
    "input_audio_buffer.speech_stopped",
    "response.text.delta",
    "response.text.done",
    "error",
    "session.created",
    "conversation.item.input_audio_transcription.failed" }

\* A frame on the wire: wf = FALSE is text JSON.parse rejects (truncated JSON);
\* "" is an absent or empty field.
Msg(ty, tr, de, tx) ==
    [wf |-> TRUE, type |-> ty, transcript |-> tr, delta |-> de, text |-> tx]

Truncated(p) == [p EXCEPT !.wf = FALSE]

\* The frames the remote end sends, over the texts T.
PayloadsOf(T) ==
    LET bare == {Msg(ty, "", "", "") : ty \in EventTypes}
        withTranscript ==
            {Msg(ty, x, "", "") :
                ty \in {"response.audio_transcript.done",
                        "conversation.item.input_audio_transcription.completed",
                        "conversation.item.input_audio_transcription.failed",
                        "input_audio_buffer.speech_started",
                        "session.created"},
                x \in T}
        withText ==
            {Msg("response.text.delta", "", x, "") : x \in T}
            \cup {Msg("response.text.done", "", "", x) : x \in T}
        good == bare \cup withTranscript \cup withText
    IN  good \cup {Truncated(p) : p \in withTranscript}

\* ------------------------------------------------------------ credentials
TokenLifetimeMs == 3600000

\* The sessionType prop: PatientSimulator mounts VoiceCommand with
\* 'ecos_simulation', VoiceChat defaults to 'chat'.
SessionTypeOf(component) == IF component = "VoiceCommand" THEN "ecos_simulation" ELSE "chat"

NoCredential == [issued |-> FALSE]

\* POST /api/rtc-token at server time t, with userId and the issuing key present:
\* the JSON of the response.
RtcTokenResponse(sessionType, t) ==
    [issued |-> TRUE,
     client_secret |-> "OPENAI_API_KEY",
     instructions |-> IF sessionType = "ecos_simulation" THEN "patient virtuel"
                      ELSE "assistant educatif",
     sessionType |-> sessionType,
     expiresAt |-> t + TokenLifetimeMs]

\* The values of the userId prop and of the server's OPENAI_API_KEY.
UserIds == {"", "etudiant"}
ApiKeys == {"", "OPENAI_API_KEY"}

NoResponse == [status |-> 0]

\* The body JSON.stringify({ userId, scenarioId, sessionType }) of the request a
\* component sends.
RtcTokenRequest(component, uid) == [userId |-> uid, sessionType |-> SessionTypeOf(component)]

\* A handler that looks for the issuing key before it looks at the request.
PostRtcTokenKeyFirst(body, key, t) ==
    IF key = "" THEN [status |-> 500, body |-> [error |-> "OpenAI API key not configured"]]
    ELSE IF "userId" \notin DOMAIN body \/ body.userId = ""
    THEN [status |-> 400, body |-> [error |-> "userId is required"]]
    ELSE [status |-> 200,
          body |-> [RtcTokenResponse(IF "sessionType" \in DOMAIN body THEN body.sessionType
                                     ELSE "chat", t)
                    EXCEPT !.client_secret = key]]

\* The handler of POST /api/rtc-token on the parsed body, with key the value of
\* process.env.OPENAI_API_KEY, at server time t: status and JSON of the answer.
PostRtcToken(body, key, t) ==
    LET sessionType == IF "sessionType" \in DOMAIN body THEN body.sessionType ELSE "chat"
    IN  IF "userId" \notin DOMAIN body \/ body.userId = ""
        THEN [status |-> 400, body |-> [error |-> "userId is required"]]
        ELSE IF key = ""
        THEN [status |-> 500, body |-> [error |-> "OpenAI API key not configured"]]
        ELSE [status |-> 200,
              body |-> [RtcTokenResponse(sessionType, t) EXCEPT !.client_secret = key]]

\* The ways the credential request fails: the endpoint is unreachable (fetch
\* rejects), userId is missing (400), no issuing key is configured (500), the
\* handler throws (500).
TokenFailures == {"unreachable", "noUserId", "noKey", "serverError"}

\* What the client receives when the request fails as r while the handler would
\* answer resp: nothing when the endpoint is unreachable, the catch block's 500
\* when the handler throws, the handler's answer otherwise.
FailedResponse(r, resp) ==
    CASE r = "unreachable" -> NoResponse
      [] r = "serverError" -> [status |-> 500, body |-> [error |-> "Failed to create RTC session"]]
      [] OTHER -> resp

\* The failure r can happen when the handler would answer resp.
CanFail(r, resp) ==
    /\ r = "noUserId" => resp.status = 400
    /\ r = "noKey" => resp.status = 500

\* response.statusText of a failed credential request.
StatusText(r) == IF r = "noUserId" THEN "Bad Request" ELSE "Internal Server Error"

\* The message of the error getRTCToken leaves startVoiceChat to report.
VcTokenError(r) ==
    IF r = "unreachable" THEN "Failed to fetch"
    ELSE "Failed to get RTC token: " \o StatusText(r)

\* What startVoice reports of a failed credential request: the status.
CmdTokenError(r) == "error"

\* JSON.stringify of an object literal: a property whose value is undefined (a
\* field the response does not have) is left out.
VcSessionUpdate(token) ==
    [type |-> "session_update",
     session |-> IF "token" \in DOMAIN token THEN [token |-> token.token]
                 ELSE [f \in {} |-> ""]]

\* The session.update message of VoiceCommand's dc.onopen.
CmdSessionUpdate(cred) ==
    [type |-> "session.update",
     session |-> [instructions |-> cred.instructions,
                  voice |-> "alloy",
                  input_audio_format |-> "pcm16",
                  output_audio_format |-> "pcm16",
                  input_audio_transcription |-> [model |-> "whisper-1"],
                  turn_detection |-> [type |-> "server_vad", threshold |-> "0.5",
                                      silence_duration_ms |-> 500]]]

\* JSON.parse: the parsed message, or ok = FALSE for a thrown SyntaxError.
JsonParse(p) == IF p.wf THEN [ok |-> TRUE, type |-> p.type, transcript |-> p.transcript,
                              delta |-> p.delta, text |-> p.text]
                ELSE [ok |-> FALSE]

NoReply == [stage |-> "none"]

\* What the history records of a frame: its class.
MsgOp(p) == IF ~p.wf THEN "malformed" ELSE IF p.type = "error" THEN "remoteError" ELSE "event"

\* What the history records of a frame VoiceCommand processes: the finalized
\* user transcript with a text, the text delta with a text, else the class.
CmdMsgOp(p) ==
    IF ~p.wf THEN MsgOp(p)
    ELSE IF p.type = "conversation.item.input_audio_transcription.completed"
            /\ p.transcript # ""
         THEN "userTranscript"
    ELSE IF p.type = "response.text.delta" /\ p.delta # "" THEN "textDelta"
    ELSE MsgOp(p)

\* What the history records of a frame VoiceChat processes in state st, after
\* the operation before: the speech-started frame with whether it arrived in
\* state connected,
\* the speech-stopped frame with whether it directly follows a speech-started
\* frame that arrived in state connected.
VcMsgOp(p, st, before) ==
    IF ~p.wf THEN MsgOp(p)
    ELSE IF p.type = "input_audio_buffer.speech_started"
         THEN IF st = "connected" THEN "speechStarted@connected" ELSE "speechStarted"
    ELSE IF p.type = "input_audio_buffer.speech_stopped"
         THEN IF before = "speechStarted@connected"
              THEN "speechStopped@speechStarted@connected" ELSE "speechStopped"
    ELSE MsgOp(p)

\* ------------------------------------------------------------- VoiceChat
\* type VoiceChatState
VoiceChatState == {"idle", "connecting", "connected", "speaking", "listening", "error"}

VcCur == [state |-> state, error |-> error, transcript |-> transcript,
          peerConnectionRef |-> peerConnectionRef, localStreamRef |-> localStreamRef,
          audioOutputRef |-> audioOutputRef,
          pc |-> pc, dc |-> dc, stream |-> stream, audio |-> audio, rel |-> 0]

\* An addTranscript that puts the new entry first.
addTranscriptFirst(log, text, isUser, t) ==
    <<[text |-> text, isUser |-> isUser, timestamp |-> t]>> \o log

\* addTranscript: no admission test, the entry is appended with new Date().
addTranscript(log, text, isUser, t) ==
    Append(log, [text |-> text, isUser |-> isUser, timestamp |-> t])

\* A handleRealtimeEvent that keeps listening while the remote end speaks.
handleRealtimeEventBoth(s, ev, t) ==
    CASE ev.type = "response.audio.delta" ->
            [s EXCEPT !.state = IF @ = "listening" THEN "speaking+listening" ELSE "speaking"]
      [] ev.type = "input_audio_buffer.speech_started" -> [s EXCEPT !.state = "listening"]
      [] OTHER -> s

\* A handleRealtimeEvent that ends the session when the user stops speaking.
handleRealtimeEventStopIdle(s, ev, t) ==
    CASE ev.type = "input_audio_buffer.speech_started" -> [s EXCEPT !.state = "listening"]
      [] ev.type = "input_audio_buffer.speech_stopped" -> [s EXCEPT !.state = "idle"]
      [] OTHER -> s

\* A handleRealtimeEvent whose final remote transcript leaves the state alone.
handleRealtimeEventKeepsState(s, ev, t) ==
    IF ev.type = "response.audio_transcript.done" /\ ev.transcript # ""
    THEN [s EXCEPT !.transcript = addTranscript(@, ev.transcript, FALSE, t)]
    ELSE s

\* handleRealtimeEvent: the switch on event.type, on the record
\* [state, error, transcript].
handleRealtimeEvent(s, ev, t) ==
    CASE ev.type = "response.audio_transcript.delta" -> s
      [] ev.type = "response.audio_transcript.done" ->
            [s EXCEPT !.transcript = IF ev.transcript # ""
                                     THEN addTranscript(@, ev.transcript, FALSE, t) ELSE @,
                      !.state = "listening"]
      [] ev.type = "conversation.item.input_audio_transcription.completed" ->
            [s EXCEPT !.transcript = IF ev.transcript # ""
                                     THEN addTranscript(@, ev.transcript, TRUE, t) ELSE @]
      [] ev.type = "response.audio.delta" -> [s EXCEPT !.state = "speaking"]
      [] ev.type = "input_audio_buffer.speech_started" -> [s EXCEPT !.state = "listening"]
      [] ev.type = "input_audio_buffer.speech_stopped" -> [s EXCEPT !.state = "connected"]
      [] ev.type = "error" -> [s EXCEPT !.state = "error", !.error = "remote"]
      [] OTHER -> s

\* An onmessage whose parse failure is fatal to the session.
VcOnMessageFatal(s, p, t) ==
    IF JsonParse(p).ok THEN handleRealtimeEvent(s, JsonParse(p), t)
    ELSE [s EXCEPT !.state = "error", !.error = "remote"]

\* dataChannel.onmessage: JSON.parse, then handleRealtimeEvent; a parse failure
\* is caught and logged.
VcOnMessage(s, p, t) ==
    IF JsonParse(p).ok THEN handleRealtimeEvent(s, JsonParse(p), t) ELSE s

\* stopVoiceChat without the reset of peerConnectionRef.
StopVoiceChatKeepsRef(s) ==
    LET p == s.peerConnectionRef
        l == s.localStreamRef
        a == s.audioOutputRef
    IN  [s EXCEPT
            !.pc = IF p # Null THEN [@ EXCEPT ![p] = "closed"] ELSE @,
            !.dc = IF p # Null THEN [@ EXCEPT ![p] = "closed"] ELSE @,
            !.stream = IF l # Null THEN [@ EXCEPT ![l] = "stopped"] ELSE @,
            !.audio = IF a # Null THEN [@ EXCEPT ![a] = "paused"] ELSE @,
            !.localStreamRef = Null,
            !.audioOutputRef = Null,
            !.state = "idle",
            !.rel = (IF p # Null THEN 1 ELSE 0) + (IF l # Null THEN 1 ELSE 0)
                    + (IF a # Null THEN 1 ELSE 0)]

\* stopVoiceChat, on the record of the refs and the browser objects. rel counts
\* the release calls made: close(), track.stop(), pause(). Closing a peer
\* connection closes its data channel.
StopVoiceChat(s) ==
    LET p == s.peerConnectionRef
        l == s.localStreamRef
        a == s.audioOutputRef
    IN  [s EXCEPT
            !.pc = IF p # Null THEN [@ EXCEPT ![p] = "closed"] ELSE @,
            !.dc = IF p # Null THEN [@ EXCEPT ![p] = "closed"] ELSE @,
            !.stream = IF l # Null THEN [@ EXCEPT ![l] = "stopped"] ELSE @,
            !.audio = IF a # Null THEN [@ EXCEPT ![a] = "paused"] ELSE @,
            !.peerConnectionRef = Null,
            !.localStreamRef = Null,
            !.audioOutputRef = Null,
            !.state = "idle",
            !.rel = (IF p # Null THEN 1 ELSE 0) + (IF l # Null THEN 1 ELSE 0)
                    + (IF a # Null THEN 1 ELSE 0)]

\* The release calls stopVoiceChat makes, in the order it makes them.
StopVoiceChatCalls(s) ==
    (IF s.peerConnectionRef # Null THEN <<"peerConnection.close">> ELSE <<>>)
    \o (IF s.localStreamRef # Null THEN <<"track.stop">> ELSE <<>>)
    \o (IF s.audioOutputRef # Null THEN <<"audio.pause">> ELSE <<>>)

\* The calls startVoiceChat has made, in order, when it is suspended at (or has
\* failed at, or has finished after) the step pos.
VcStartCalls(pos) ==
    LET upTo(n) == SubSeq(<<"getRTCToken", "getUserMedia", "new RTCPeerConnection",
                            "createDataChannel", "addTrack", "createOffer",
                            "setLocalDescription">>, 1, n)
    IN  CASE pos \in {"token", "failed:token"} -> upTo(1)
          [] pos \in {"mic", "failed:mic"} -> upTo(2)
          [] pos \in {"offer", "failed:offer"} -> upTo(6)
          [] pos \in {"setLocal", "failed:setLocal", "done"} -> upTo(7)
          [] OTHER -> <<>>

\* A catch that returns the session to idle.
VcCatchToIdle(k, cause) ==
    /\ state' = "idle"
    /\ error' = cause
    /\ flow' = [flow EXCEPT ![k] = "failed:" \o @]

\* The catch of startVoiceChat: updateState('error'), setError(message).
VcCatch(k, cause) ==
    /\ state' = "error"
    /\ error' = cause
    /\ flow' = [flow EXCEPT ![k] = "failed:" \o @]

\* A start that reuses the credential of the start sequence before it.
VcStartCached ==
    /\ mounted = "VoiceChat" /\ alive
    /\ state = "idle"
    /\ nStarts < MaxStarts
    /\ nStarts' = nStarts + 1
    /\ IF nStarts >= 1 /\ credential[nStarts] # NoCredential
       THEN /\ flow' = [flow EXCEPT ![nStarts + 1] = "mic"]
            /\ credential' = [credential EXCEPT ![nStarts + 1] = credential[nStarts]]
       ELSE /\ flow' = [flow EXCEPT ![nStarts + 1] = "token"]
            /\ UNCHANGED credential
    /\ state' = "connecting"
    /\ error' = "null"
    /\ captured' = [captured EXCEPT ![nStarts + 1] = isOutputMuted]
    /\ last' = "start"
    /\ UNCHANGED <<userId, apiKey, response, isMuted, isOutputMuted, enabled, muted,
                   mounted, alive, now, browserVars, transcript, peerConnectionRef,
                   localStreamRef, audioOutputRef, dataChannelRef, cmdVars, simVars, ticks>>

\* The start button (rendered in state idle only): updateState('connecting'),
\* setError(null), and the credential request is sent.
VcStart ==
    /\ mounted = "VoiceChat" /\ alive
    /\ state = "idle"
    /\ nStarts < MaxStarts
    /\ nStarts' = nStarts + 1
    /\ flow' = [flow EXCEPT ![nStarts + 1] = "token"]
    /\ state' = "connecting"
    /\ error' = "null"
    /\ captured' = [captured EXCEPT ![nStarts + 1] = isOutputMuted]
    /\ last' = "start"
    /\ UNCHANGED <<userId, apiKey, response, isMuted, isOutputMuted, enabled, muted,
                   credential, mounted, alive, now, browserVars, transcript, peerConnectionRef,
                   localStreamRef, audioOutputRef, dataChannelRef, cmdVars, simVars, ticks>>

\* getRTCToken resolves with the JSON of an ok response: initializeAudio is
\* called (getUserMedia pending).
VcTokenOk(k) ==
    /\ mounted = "VoiceChat" /\ flow[k] = "token"
    /\ LET resp == PostRtcToken(RtcTokenRequest(mounted, userId), apiKey, now) IN
        /\ resp.status = 200
        /\ response' = [response EXCEPT ![k] = resp]
        /\ credential' = [credential EXCEPT ![k] = resp.body]
    /\ flow' = [flow EXCEPT ![k] = "mic"]
    /\ last' = "step"
    /\ UNCHANGED <<userId, apiKey, muteVars, mounted, alive, now, browserVars, nStarts, chatVars, cmdVars, simVars, ticks>>

\* getRTCToken rejects with failure r: fetch fails, or the response is not ok.
VcTokenFail(k, r) ==
    /\ mounted = "VoiceChat" /\ flow[k] = "token"
    /\ LET resp == PostRtcToken(RtcTokenRequest(mounted, userId), apiKey, now) IN
        /\ CanFail(r, resp)
        /\ response' = [response EXCEPT ![k] = FailedResponse(r, resp)]
    /\ VcCatch(k, VcTokenError(r))
    /\ last' = "tokenFail"
    /\ UNCHANGED <<userId, apiKey, muteVars, credential, mounted, alive, now, browserVars, nStarts, transcript,
                   peerConnectionRef, localStreamRef, audioOutputRef, dataChannelRef,
                   cmdVars, simVars, ticks>>

\* getUserMedia resolves: localStreamRef is set, createPeerConnection creates the
\* peer connection and its data channel and sets both refs, the tracks are added
\* and createOffer is called.
VcMicOk(k) ==
    /\ mounted = "VoiceChat" /\ flow[k] = "mic"
    /\ stream' = [stream EXCEPT ![k] = "live"]
    /\ localStreamRef' = k
    /\ pc' = [pc EXCEPT ![k] = "new"]
    /\ peerConnectionRef' = k
    /\ dc' = [dc EXCEPT ![k] = "connecting"]
    /\ dataChannelRef' = k
    /\ enabled' = [enabled EXCEPT ![k] = TRUE]
    /\ flow' = [flow EXCEPT ![k] = "offer"]
    /\ last' = "step"
    /\ UNCHANGED <<userId, apiKey, response, isMuted, isOutputMuted, muted, captured, credential, mounted, alive, now, audio, sent, nStarts, state, error, transcript,
                   audioOutputRef, cmdVars, simVars, ticks>>

\* getUserMedia rejects: initializeAudio throws 'Failed to access microphone'.
VcMicFail(k) ==
    /\ mounted = "VoiceChat" /\ flow[k] = "mic"
    /\ VcCatch(k, "microphone")
    /\ last' = "micFail"
    /\ UNCHANGED <<userId, apiKey, response, muteVars, credential, mounted, alive, now, browserVars, nStarts, transcript,
                   peerConnectionRef, localStreamRef, audioOutputRef, dataChannelRef,
                   cmdVars, simVars, ticks>>

\* createOffer resolves (it cannot on a closed connection): setLocalDescription
\* is called.
VcOfferOk(k) ==
    /\ mounted = "VoiceChat" /\ flow[k] = "offer" /\ pc[k] # "closed"
    /\ flow' = [flow EXCEPT ![k] = "setLocal"]
    /\ last' = "step"
    /\ UNCHANGED <<userId, apiKey, response, muteVars, credential, mounted, alive, now, browserVars, nStarts, chatVars, cmdVars, simVars, ticks>>

\* createOffer or setLocalDescription rejects.
VcNegotiationFail(k) ==
    /\ mounted = "VoiceChat" /\ flow[k] \in {"offer", "setLocal"}
    /\ VcCatch(k, "negotiation")
    /\ last' = "negotiationFail"
    /\ UNCHANGED <<userId, apiKey, response, muteVars, credential, mounted, alive, now, browserVars, nStarts, transcript,
                   peerConnectionRef, localStreamRef, audioOutputRef, dataChannelRef,
                   cmdVars, simVars, ticks>>

\* setLocalDescription resolves: the offer is logged, not sent, and
\* updateState('connected').
VcSetLocalOk(k) ==
    /\ mounted = "VoiceChat" /\ flow[k] = "setLocal" /\ pc[k] # "closed"
    /\ state' = "connected"
    /\ flow' = [flow EXCEPT ![k] = "done"]
    /\ last' = "setLocalOk"
    /\ UNCHANGED <<userId, apiKey, response, muteVars, credential, mounted, alive, now, browserVars, nStarts, error, transcript,
                   peerConnectionRef, localStreamRef, audioOutputRef, dataChannelRef,
                   cmdVars, simVars, ticks>>

\* The transport's connection states: what a connection in state from may report.
ConnTransitions(from) ==
    CASE from = "new" -> {"connected", "failed"}
      [] from = "connected" -> {"disconnected", "failed"}
      [] from = "disconnected" -> {"connected", "failed"}
      [] OTHER -> {}

\* pc.onconnectionstatechange of connection k. A failed transport closes its
\* data channel.
VcConnectionStateChange(k, to) ==
    /\ mounted = "VoiceChat" /\ flow[k] = "done"
    /\ to \in ConnTransitions(pc[k])
    /\ pc' = [pc EXCEPT ![k] = to]
    /\ dc' = [dc EXCEPT ![k] = IF to = "failed" THEN "closed" ELSE @]
    /\ state' = IF to = "connected" THEN "connected" ELSE "error"
    /\ error' = IF to = "connected" THEN error ELSE "lost"
    /\ last' = to
    /\ UNCHANGED <<userId, apiKey, response, muteVars, credential, mounted, alive, now, stream, audio, sent, flow, nStarts, transcript,
                   peerConnectionRef, localStreamRef, audioOutputRef, dataChannelRef,
                   cmdVars, simVars, ticks>>

\* dataChannel.onopen: the session_update message is sent.
VcDataChannelOpen(k) ==
    /\ mounted = "VoiceChat" /\ dc[k] = "connecting" /\ pc[k] = "connected"
    /\ dc' = [dc EXCEPT ![k] = "open"]
    /\ sent' = [sent EXCEPT ![k] = Append(@, VcSessionUpdate(credential[k]))]
    /\ last' = "dcOpen"
    /\ UNCHANGED <<userId, apiKey, response, muteVars, credential, mounted, alive, now, pc, stream, audio, flow, nStarts, chatVars, cmdVars, simVars, ticks>>

\* pc.ontrack with an audio track: a new Audio element plays the remote stream,
\* muted as isOutputMuted was in the render that called createPeerConnection.
VcOnTrack(k) ==
    /\ mounted = "VoiceChat" /\ pc[k] = "connected" /\ audio[k] = "none"
    /\ audio' = [audio EXCEPT ![k] = "playing"]
    /\ muted' = [muted EXCEPT ![k] = captured[k]]
    /\ audioOutputRef' = k
    /\ last' = "track"
    /\ UNCHANGED <<userId, apiKey, response, isMuted, isOutputMuted, enabled, captured, credential, mounted, alive, now, pc, dc, stream, sent, flow, nStarts, state, error,
                   transcript, peerConnectionRef, localStreamRef, dataChannelRef, cmdVars, simVars, ticks>>

\* dataChannel.onmessage of channel k with frame p.
VcDataChannelMessage(k, p) ==
    /\ mounted = "VoiceChat" /\ dc[k] = "open"
    /\ LET s == VcOnMessage(VcCur, p, now) IN
        /\ Len(s.transcript) <= MaxVoiceLog
        /\ state' = s.state
        /\ error' = s.error
        /\ transcript' = s.transcript
    /\ last' = VcMsgOp(p, state, last)
    /\ UNCHANGED <<userId, apiKey, response, muteVars, credential, mounted, alive, now, browserVars, flow, nStarts, peerConnectionRef,
                   localStreamRef, audioOutputRef, dataChannelRef, cmdVars, simVars, ticks>>

VcApplyStop(name) ==
    LET s == StopVoiceChat(VcCur) IN
    /\ pc' = s.pc /\ dc' = s.dc /\ stream' = s.stream /\ audio' = s.audio
    /\ peerConnectionRef' = s.peerConnectionRef
    /\ localStreamRef' = s.localStreamRef
    /\ audioOutputRef' = s.audioOutputRef
    /\ state' = s.state
    /\ last' = IF s.rel = 0 THEN name \o "Nothing" ELSE name

\* The hang-up button (rendered in every state but idle): stopVoiceChat.
VcStop ==
    /\ mounted = "VoiceChat" /\ alive
    /\ state # "idle"
    /\ VcApplyStop("stop")
    /\ UNCHANGED <<userId, apiKey, response, muteVars, credential, mounted, alive, now, sent, flow, nStarts, error, transcript,
                   dataChannelRef, cmdVars, simVars, ticks>>

\* The effect cleanup on unmount: stopVoiceChat; the buttons are gone afterwards.
VcUnmount ==
    /\ mounted = "VoiceChat" /\ alive
    /\ alive' = FALSE
    /\ VcApplyStop("unmount")
    /\ UNCHANGED <<userId, apiKey, response, muteVars, credential, mounted, now, sent, flow, nStarts, error, transcript,
                   dataChannelRef, cmdVars, simVars, ticks>>

\* The microphone button (rendered in every state but idle): toggleMute. With
\* no local stream it does nothing.
VcToggleMute ==
    /\ mounted = "VoiceChat" /\ alive
    /\ state # "idle"
    /\ IF localStreamRef # Null
       THEN /\ enabled' = [enabled EXCEPT ![localStreamRef] = isMuted]
            /\ isMuted' = ~isMuted
            /\ last' = "toggleMute"
       ELSE /\ UNCHANGED <<enabled, isMuted>>
            /\ last' = "toggleMuteNothing"
    /\ UNCHANGED <<userId, apiKey, response, isOutputMuted, muted, captured, credential, mounted,
                   alive, now, browserVars, flow, nStarts, chatVars, cmdVars, simVars, ticks>>

\* The speaker button (rendered in every state but idle): toggleOutputMute. With
\* no playback element it does nothing.
VcToggleOutputMute ==
    /\ mounted = "VoiceChat" /\ alive
    /\ state # "idle"
    /\ IF audioOutputRef # Null
       THEN /\ muted' = [muted EXCEPT ![audioOutputRef] = ~isOutputMuted]
            /\ isOutputMuted' = ~isOutputMuted
            /\ last' = "toggleOutputMute"
       ELSE /\ UNCHANGED <<muted, isOutputMuted>>
            /\ last' = "toggleOutputMuteNothing"
    /\ UNCHANGED <<userId, apiKey, response, isMuted, enabled, captured, credential, mounted,
                   alive, now, browserVars, flow, nStarts, chatVars, cmdVars, simVars, ticks>>

VcNext ==
    \/ VcStart
    \/ VcStop
    \/ VcUnmount
    \/ \E k \in Objs :
        \/ VcTokenOk(k)
        \/ \E r \in TokenFailures : VcTokenFail(k, r)
        \/ VcMicOk(k) \/ VcMicFail(k)
        \/ VcOfferOk(k) \/ VcNegotiationFail(k) \/ VcSetLocalOk(k)
        \/ VcDataChannelOpen(k) \/ VcOnTrack(k)
        \/ \E to \in {"connected", "disconnected", "failed"} : VcConnectionStateChange(k, to)
        \/ \E p \in PayloadsOf({"Bonjour"}) : VcDataChannelMessage(k, p)

\* ------------------------------------------------------ PatientSimulator
DedupWindowMs == 2000
ReplyDelayMs == 1000

Abs(x) == IF x < 0 THEN -x ELSE x

Sender(isUser) == IF isUser THEN "user" ELSE "bot"

\* The welcome message the mount effect posts.
Welcome == [content |-> "welcome", sender |-> "bot", timestamp |-> 0]

\* An isDuplicate that compares content and time only.
isDuplicateAnySender(prev, text, sender, t) ==
    \E i \in 1..Len(prev) :
        /\ prev[i].content = text
        /\ Abs(prev[i].timestamp - t) < DedupWindowMs

\* An isDuplicate that looks at the newest entry only.
isDuplicateLastOnly(prev, text, sender, t) ==
    /\ prev # <<>>
    /\ prev[Len(prev)].content = text
    /\ prev[Len(prev)].sender = sender
    /\ Abs(prev[Len(prev)].timestamp - t) < DedupWindowMs

\* isDuplicate of the setMessages updater: some entry has the same content, the
\* same sender and a timestamp less than 2000 ms away.
isDuplicate(prev, text, sender, t) ==
    \E i \in 1..Len(prev) :
        /\ prev[i].content = text
        /\ prev[i].sender = sender
        /\ Abs(prev[i].timestamp - t) < DedupWindowMs

\* The onTranscript handler PatientSimulator passes to VoiceCommand, at time t.
onTranscript(prev, text, isUser, t) ==
    IF isDuplicate(prev, text, Sender(isUser), t)
    THEN prev
    ELSE Append(prev, [content |-> text, sender |-> Sender(isUser), timestamp |-> t])

\* ----------------------------------------------------------- VoiceCommand
\* String.includes on the event types of the model.
Includes(ty, sub) ==
    CASE sub = "input_audio_transcription" ->
            ty \in {"conversation.item.input_audio_transcription.completed",
                    "conversation.item.input_audio_transcription.failed"}
      [] sub = "transcript" ->
            ty \in {"conversation.item.input_audio_transcription.completed",
                    "conversation.item.input_audio_transcription.failed",
                    "response.audio_transcript.delta",
                    "response.audio_transcript.done"}
      [] sub = "input" ->
            ty \in {"conversation.item.input_audio_transcription.completed",
                    "conversation.item.input_audio_transcription.failed",
                    "input_audio_buffer.speech_started",
                    "input_audio_buffer.speech_stopped"}
      [] sub = "user" -> FALSE

\* dc.onmessage after JSON.parse: the onTranscript calls, in order, of the five
\* if statements.
CmdTranscriptCalls(msg) ==
    (IF msg.type = "conversation.item.input_audio_transcription.completed"
        /\ msg.transcript # ""
     THEN <<[text |-> msg.transcript, isUser |-> TRUE]>> ELSE <<>>)
    \o (IF (msg.type = "input_audio_buffer.speech_started"
            \/ Includes(msg.type, "input_audio_transcription"))
           /\ msg.transcript # ""
        THEN <<[text |-> msg.transcript, isUser |-> TRUE]>> ELSE <<>>)
    \o (IF msg.type \in {"response.text.delta", "response.output_text.delta"}
           /\ msg.delta # ""
        THEN <<[text |-> msg.delta, isUser |-> FALSE]>> ELSE <<>>)
    \o (IF msg.type \in {"response.text.done", "response.output_text.done"}
           /\ msg.text # ""
        THEN <<[text |-> msg.text, isUser |-> FALSE]>> ELSE <<>>)
    \o (IF Includes(msg.type, "transcript") /\ msg.transcript # ""
        THEN <<[text |-> msg.transcript,
                isUser |-> Includes(msg.type, "input") \/ Includes(msg.type, "user")]>>
        ELSE <<>>)

RECURSIVE ApplyCalls(_, _, _)
ApplyCalls(prev, calls, t) ==
    IF calls = <<>> THEN prev
    ELSE ApplyCalls(onTranscript(prev, Head(calls).text, Head(calls).isUser, t),
                    Tail(calls), t)

\* A dc.onmessage that has no admission test between its onTranscript calls.
CmdOnMessageNoTest(prev, p, t) ==
    IF JsonParse(p).ok
    THEN prev \o [i \in 1..Len(CmdTranscriptCalls(JsonParse(p))) |->
                    [content |-> CmdTranscriptCalls(JsonParse(p))[i].text,
                     sender |-> Sender(CmdTranscriptCalls(JsonParse(p))[i].isUser),
                     timestamp |-> t]]
    ELSE prev

\* dc.onmessage with frame p at time t, on the conversation log: a parse failure
\* is caught and logged.
CmdOnMessage(prev, p, t) ==
    IF JsonParse(p).ok THEN ApplyCalls(prev, CmdTranscriptCalls(JsonParse(p)), t) ELSE prev

CmdCur == [status |-> status, isActive |-> isActive,
           pcRef |-> pcRef, micStreamRef |-> micStreamRef, dcRef |-> dcRef,
           pc |-> pc, dc |-> dc, stream |-> stream, audio |-> audio, rel |-> 0]

\* A stopVoice without setIsActive(false).
StopVoiceKeepsActive(s) ==
    LET d == s.dcRef
        p == s.pcRef
        m == s.micStreamRef
        dc1 == IF d # Null THEN [s.dc EXCEPT ![d] = "closed"] ELSE s.dc
    IN  [s EXCEPT
            !.dc = IF p # Null THEN [dc1 EXCEPT ![p] = "closed"] ELSE dc1,
            !.pc = IF p # Null THEN [@ EXCEPT ![p] = "closed"] ELSE @,
            !.stream = IF m # Null THEN [@ EXCEPT ![m] = "stopped"] ELSE @,
            !.dcRef = Null,
            !.pcRef = Null,
            !.micStreamRef = Null,
            !.status = "idle",
            !.rel = (IF d # Null THEN 1 ELSE 0) + (IF p # Null THEN 1 ELSE 0)
                    + (IF m # Null THEN 1 ELSE 0)]

\* stopVoice, on the record of the refs and the browser objects; rel counts the
\* release calls made.
StopVoice(s) ==
    LET d == s.dcRef
        p == s.pcRef
        m == s.micStreamRef
        dc1 == IF d # Null THEN [s.dc EXCEPT ![d] = "closed"] ELSE s.dc
    IN  [s EXCEPT
            !.dc = IF p # Null THEN [dc1 EXCEPT ![p] = "closed"] ELSE dc1,
            !.pc = IF p # Null THEN [@ EXCEPT ![p] = "closed"] ELSE @,
            !.stream = IF m # Null THEN [@ EXCEPT ![m] = "stopped"] ELSE @,
            !.dcRef = Null,
            !.pcRef = Null,
            !.micStreamRef = Null,
            !.status = "idle",
            !.isActive = FALSE,
            !.rel = (IF d # Null THEN 1 ELSE 0) + (IF p # Null THEN 1 ELSE 0)
                    + (IF m # Null THEN 1 ELSE 0)]

\* The release calls stopVoice makes, in the order it makes them.
StopVoiceCalls(s) ==
    (IF s.dcRef # Null THEN <<"dataChannel.close">> ELSE <<>>)
    \o (IF s.pcRef # Null THEN <<"peerConnection.close">> ELSE <<>>)
    \o (IF s.micStreamRef # Null THEN <<"track.stop">> ELSE <<>>)

\* A startVoice that creates its data channel after the offer.
CmdStartCallsLateChannel(pos) ==
    LET upTo(n) == SubSeq(<<"fetch /api/rtc-token", "new RTCPeerConnection",
                            "getUserMedia", "addTrack", "createOffer",
                            "createDataChannel", "setLocalDescription",
                            "fetch realtime", "setRemoteDescription">>, 1, n)
    IN  CASE pos \in {"token", "failed:token"} -> upTo(1)
          [] pos \in {"mic", "failed:mic"} -> upTo(3)
          [] pos \in {"offer", "failed:offer"} -> upTo(5)
          [] pos \in {"setLocal", "failed:setLocal"} -> upTo(7)
          [] pos \in {"exchange", "failed:exchange"} -> upTo(8)
          [] pos \in {"setRemote", "failed:setRemote", "done"} -> upTo(9)
          [] OTHER -> <<>>

\* The calls startVoice has made, in order, when it is suspended at (or has
\* failed at, or has finished after) the step pos.
CmdStartCalls(pos) ==
    LET upTo(n) == SubSeq(<<"fetch /api/rtc-token", "new RTCPeerConnection",
                            "createDataChannel", "getUserMedia", "addTrack",
                            "createOffer", "setLocalDescription",
                            "fetch realtime", "setRemoteDescription">>, 1, n)
    IN  CASE pos \in {"token", "failed:token"} -> upTo(1)
          [] pos \in {"mic", "failed:mic"} -> upTo(4)
          [] pos \in {"offer", "failed:offer"} -> upTo(6)
          [] pos \in {"setLocal", "failed:setLocal"} -> upTo(7)
          [] pos \in {"exchange", "failed:exchange"} -> upTo(8)
          [] pos \in {"setRemote", "failed:setRemote", "done"} -> upTo(9)
          [] OTHER -> <<>>

\* The catch of startVoice: setStatus('error'), setIsActive(false).
CmdCatch(k) ==
    /\ status' = "error"
    /\ isActive' = FALSE
    /\ flow' = [flow EXCEPT ![k] = "failed:" \o @]

\* handleClick while inactive: startVoice sets the status and sends the
\* credential request. The button is disabled while the status is connecting.
CmdStart ==
    /\ mounted = "VoiceCommand"
    /\ status # "connecting" /\ ~isActive
    /\ nStarts < MaxStarts
    /\ nStarts' = nStarts + 1
    /\ flow' = [flow EXCEPT ![nStarts + 1] = "token"]
    /\ status' = "connecting"
    /\ last' = "start"
    /\ UNCHANGED <<userId, apiKey, response, muteVars, credential, mounted, alive, now, browserVars, chatVars, isActive, pcRef,
                   micStreamRef, dcRef, simVars, ticks>>

\* handleClick while active: stopVoice.
CmdStop ==
    /\ mounted = "VoiceCommand"
    /\ status # "connecting" /\ isActive
    /\ LET s == StopVoice(CmdCur) IN
        /\ pc' = s.pc /\ dc' = s.dc /\ stream' = s.stream
        /\ pcRef' = s.pcRef /\ dcRef' = s.dcRef /\ micStreamRef' = s.micStreamRef
        /\ status' = s.status /\ isActive' = s.isActive
        /\ last' = IF s.rel = 0 THEN "stopNothing" ELSE "stop"
    /\ UNCHANGED <<userId, apiKey, response, muteVars, credential, mounted, alive, now, audio, sent, flow, nStarts, chatVars, simVars, ticks>>

\* The credential response is ok and parsed: the peer connection and its data
\* channel are created, their refs set, and getUserMedia is called.
CmdTokenOk(k) ==
    /\ mounted = "VoiceCommand" /\ flow[k] = "token"
    /\ pc' = [pc EXCEPT ![k] = "new"]
    /\ pcRef' = k
    /\ dc' = [dc EXCEPT ![k] = "connecting"]
    /\ dcRef' = k
    /\ LET resp == PostRtcToken(RtcTokenRequest(mounted, userId), apiKey, now) IN
        /\ resp.status = 200
        /\ response' = [response EXCEPT ![k] = resp]
        /\ credential' = [credential EXCEPT ![k] = resp.body]
    /\ flow' = [flow EXCEPT ![k] = "mic"]
    /\ last' = "step"
    /\ UNCHANGED <<userId, apiKey, muteVars, mounted, alive, now, stream, audio, sent, nStarts, chatVars, status,
                   isActive, micStreamRef, simVars, ticks>>

\* getUserMedia resolves: micStreamRef is set, the tracks are added, createOffer
\* is called.
CmdMicOk(k) ==
    /\ mounted = "VoiceCommand" /\ flow[k] = "mic"
    /\ stream' = [stream EXCEPT ![k] = "live"]
    /\ micStreamRef' = k
    /\ flow' = [flow EXCEPT ![k] = "offer"]
    /\ last' = "step"
    /\ UNCHANGED <<userId, apiKey, response, muteVars, credential, mounted, alive, now, pc, dc, audio, sent, nStarts, chatVars, status,
                   isActive, pcRef, dcRef, simVars, ticks>>

\* createOffer, setLocalDescription, the SDP exchange with the Realtime API:
\* each resolves and the next is called.
CmdNegotiationOk(k) ==
    /\ mounted = "VoiceCommand" /\ flow[k] \in {"offer", "setLocal", "exchange"}
    /\ flow' = [flow EXCEPT ![k] = CASE @ = "offer" -> "setLocal"
                                     [] @ = "setLocal" -> "exchange"
                                     [] @ = "exchange" -> "setRemote"]
    /\ last' = "step"
    /\ UNCHANGED <<userId, apiKey, response, muteVars, credential, mounted, alive, now, browserVars, nStarts, chatVars, cmdVars, simVars, ticks>>

\* setRemoteDescription resolves: dc.onopen is assigned, setStatus('connected'),
\* setIsActive(true).
CmdSetRemoteOk(k) ==
    /\ mounted = "VoiceCommand" /\ flow[k] = "setRemote"
    /\ flow' = [flow EXCEPT ![k] = "done"]
    /\ status' = "connected"
    /\ isActive' = TRUE
    /\ last' = "setRemoteOk"
    /\ UNCHANGED <<userId, apiKey, response, muteVars, credential, mounted, alive, now, browserVars, nStarts, chatVars, pcRef,
                   micStreamRef, dcRef, simVars, ticks>>

\* Any awaited step of startVoice rejects, or a response is not ok.
CmdStepFail(k) ==
    /\ mounted = "VoiceCommand"
    /\ flow[k] \in {"token", "mic", "offer", "setLocal", "exchange", "setRemote"}
    /\ IF flow[k] = "token"
       THEN LET resp == PostRtcToken(RtcTokenRequest(mounted, userId), apiKey, now) IN
            \E r \in TokenFailures :
                /\ CanFail(r, resp)
                /\ response' = [response EXCEPT ![k] = FailedResponse(r, resp)]
       ELSE UNCHANGED response
    /\ CmdCatch(k)
    /\ last' = IF flow[k] = "token" THEN "tokenFail"
               ELSE IF flow[k] = "mic" THEN "micFail" ELSE "negotiationFail"
    /\ UNCHANGED <<userId, apiKey, muteVars, credential, mounted, alive, now, browserVars, nStarts, chatVars, pcRef,
                   micStreamRef, dcRef, simVars, ticks>>

\* The transport changes state; VoiceCommand registers no handler for it.
CmdConnectionStateChange(k, to) ==
    /\ mounted = "VoiceCommand" /\ flow[k] = "done"
    /\ to \in ConnTransitions(pc[k])
    /\ pc' = [pc EXCEPT ![k] = to]
    /\ dc' = [dc EXCEPT ![k] = IF to = "failed" THEN "closed" ELSE @]
    /\ last' = to
    /\ UNCHANGED <<userId, apiKey, response, muteVars, credential, mounted, alive, now, stream, audio, sent, flow, nStarts, chatVars,
                   cmdVars, simVars, ticks>>

\* A channel that opens with no onopen handler to run.
CmdDataChannelOpenSilent(k) ==
    /\ mounted = "VoiceCommand" /\ dc[k] = "connecting" /\ pc[k] = "connected"
    /\ dc' = [dc EXCEPT ![k] = "open"]
    /\ last' = "dcOpen"
    /\ UNCHANGED <<userId, apiKey, response, muteVars, credential, mounted, alive, now, pc, stream, audio, sent, flow, nStarts, chatVars,
                   cmdVars, simVars, ticks>>

\* dc.onopen: the session.update message is sent.
CmdDataChannelOpen(k) ==
    /\ mounted = "VoiceCommand" /\ dc[k] = "connecting" /\ pc[k] = "connected"
    /\ dc' = [dc EXCEPT ![k] = "open"]
    /\ sent' = [sent EXCEPT ![k] = Append(@, CmdSessionUpdate(credential[k]))]
    /\ last' = "dcOpen"
    /\ UNCHANGED <<userId, apiKey, response, muteVars, credential, mounted, alive, now, pc, stream, audio, flow, nStarts, chatVars,
                   cmdVars, simVars, ticks>>

\* pc.ontrack: the page's one ai-audio element plays the remote stream of k.
CmdOnTrack(k) ==
    /\ mounted = "VoiceCommand" /\ pc[k] = "connected" /\ audio[k] = "none"
    /\ audio' = [j \in Objs |-> IF j = k THEN "playing"
                                ELSE IF audio[j] = "playing" THEN "replaced" ELSE audio[j]]
    /\ last' = "track"
    /\ UNCHANGED <<userId, apiKey, response, muteVars, credential, mounted, alive, now, pc, dc, stream, sent, flow, nStarts, chatVars,
                   cmdVars, simVars, ticks>>

\* dc.onmessage of channel k with frame p: every onTranscript call runs
\* PatientSimulator's handler.
CmdDataChannelMessage(k, p, room) ==
    /\ mounted = "VoiceCommand" /\ dc[k] = "open"
    /\ messages' = CmdOnMessage(messages, p, now)
    /\ Len(messages') <= 1 + room
    /\ last' = CmdMsgOp(p)
    /\ UNCHANGED <<userId, apiKey, response, muteVars, credential, mounted, alive, now, browserVars, flow, nStarts, chatVars, cmdVars,
                   isLoading, sessionStatus, progress, reply, ticks>>

CmdNext ==
    \/ CmdStart
    \/ CmdStop
    \/ \E k \in Objs :
        \/ CmdTokenOk(k) \/ CmdMicOk(k) \/ CmdNegotiationOk(k) \/ CmdSetRemoteOk(k)
        \/ CmdStepFail(k)
        \/ CmdDataChannelOpen(k) \/ CmdOnTrack(k)
        \/ \E to \in {"connected", "disconnected", "failed"} : CmdConnectionStateChange(k, to)
        \/ \E p \in PayloadsOf({"Bonjour"}) : CmdDataChannelMessage(k, p, MaxVoiceLog)

\* ---------------------------------------- PatientSimulator: typed messages
\* The clock advances by d ms, not past the time a pending timer is due.
TickSteps == {500, 1999, 2000, 5000}

Tick(d) ==
    /\ ticks < MaxTicks
    /\ reply.stage = "timer" => now + d <= reply.due
    /\ now' = now + d
    /\ ticks' = ticks + 1
    /\ last' = "tick"
    /\ UNCHANGED <<userId, apiKey, response, muteVars, credential, mounted, alive, browserVars, flow, nStarts, chatVars, cmdVars, simVars>>

Min(a, b) == IF a < b THEN a ELSE b

\* handleSendMessage with the trimmed input text: the user message is appended
\* as it is, and sendMessageToAPI posts it to /api/ecos/chat. The input and the
\* send button are disabled while loading or when the session is not active.
PsHandleSendMessage(text) ==
    /\ mounted = "VoiceCommand"
    /\ ~isLoading /\ sessionStatus = "active"
    /\ Len(messages) < 1 + MaxLog
    /\ messages' = Append(messages, [content |-> text, sender |-> "user", timestamp |-> now])
    /\ isLoading' = TRUE
    /\ reply' = [stage |-> "fetch"]
    /\ last' = "typed"
    /\ UNCHANGED <<userId, apiKey, response, muteVars, credential, mounted, alive, now, browserVars, flow, nStarts, chatVars, cmdVars,
                   sessionStatus, progress, ticks>>

\* The chat response arrives: botResponse is built with new Date() and a timer
\* of 1000 ms is set to append it.
PsChatOk(text) ==
    /\ reply.stage = "fetch"
    /\ reply' = [stage |-> "timer", due |-> now + ReplyDelayMs,
                 msg |-> [content |-> text, sender |-> "bot", timestamp |-> now]]
    /\ last' = "chatOk"
    /\ UNCHANGED <<userId, apiKey, response, muteVars, credential, mounted, alive, now, browserVars, flow, nStarts, chatVars, cmdVars,
                   messages, isLoading, sessionStatus, progress, ticks>>

\* The chat request fails: the catch appends the error message at once.
PsChatFail ==
    /\ reply.stage = "fetch"
    /\ Len(messages) < 1 + MaxLog
    /\ isLoading' = FALSE
    /\ sessionStatus' = "error"
    /\ messages' = Append(messages, [content |-> "erreur", sender |-> "bot", timestamp |-> now])
    /\ reply' = NoReply
    /\ last' = "chatFail"
    /\ UNCHANGED <<userId, apiKey, response, muteVars, credential, mounted, alive, now, browserVars, flow, nStarts, chatVars, cmdVars,
                   progress, ticks>>

\* The timer fires, 1000 ms after it was set: botResponse is appended.
PsReplyTimer ==
    /\ reply.stage = "timer" /\ now >= reply.due
    /\ Len(messages) < 1 + MaxLog
    /\ messages' = Append(messages, reply.msg)
    /\ progress' = Min(progress + 10, 100)
    /\ isLoading' = FALSE
    /\ reply' = NoReply
    /\ last' = "replyTimer"
    /\ UNCHANGED <<userId, apiKey, response, muteVars, credential, mounted, alive, now, browserVars, flow, nStarts, chatVars, cmdVars,
                   sessionStatus, ticks>>

\* PatientSimulator with its voice session established by flow 1: the state
\* after start, the six awaited steps, the transport connecting and the data
\* channel opening.
Established ==
    /\ mounted = "VoiceCommand" /\ alive = TRUE
    /\ userId = "etudiant" /\ apiKey = "OPENAI_API_KEY"
    /\ response = [k \in Objs |-> IF k = 1
                                  THEN PostRtcToken(RtcTokenRequest(mounted, userId), apiKey, 0)
                                  ELSE NoResponse]
    /\ isMuted = FALSE /\ isOutputMuted = FALSE
    /\ enabled = [k \in Objs |-> TRUE]
    /\ muted = [k \in Objs |-> FALSE]
    /\ captured = [k \in Objs |-> FALSE]
    /\ now = 0 /\ ticks = 0
    /\ pc = [k \in Objs |-> IF k = 1 THEN "connected" ELSE "none"]
    /\ dc = [k \in Objs |-> IF k = 1 THEN "open" ELSE "none"]
    /\ stream = [k \in Objs |-> IF k = 1 THEN "live" ELSE "none"]
    /\ audio = [k \in Objs |-> "none"]
    /\ credential = [k \in Objs |-> IF k = 1 THEN RtcTokenResponse("ecos_simulation", 0)
                                 ELSE NoCredential]
    /\ sent = [k \in Objs |-> IF k = 1 THEN <<CmdSessionUpdate(credential[1])>> ELSE <<>>]
    /\ flow = [k \in Objs |-> IF k = 1 THEN "done" ELSE "none"]
    /\ nStarts = 1
    /\ state = "idle" /\ error = "null" /\ transcript = <<>>
    /\ peerConnectionRef = Null /\ localStreamRef = Null
    /\ audioOutputRef = Null /\ dataChannelRef = Null
    /\ status = "connected" /\ isActive = TRUE
    /\ pcRef = 1 /\ micStreamRef = 1 /\ dcRef = 1
    /\ messages = <<Welcome>>
    /\ isLoading = FALSE /\ progress = 0 /\ sessionStatus = "active"
    /\ reply = NoReply
    /\ last = "dcOpen"

LogNext ==
    \/ \E d \in TickSteps : Tick(d)
    \/ \E text \in Texts : PsHandleSendMessage(text)
    \/ \E text \in Texts : PsChatOk(text)
    \/ PsChatFail
    \/ PsReplyTimer
    \/ \E p \in PayloadsOf(Texts) : CmdDataChannelMessage(1, p, MaxLog)

Init ==
    /\ mounted \in {"VoiceChat", "VoiceCommand"}
    /\ userId \in UserIds
    /\ apiKey \in ApiKeys
    /\ response = [k \in Objs |-> NoResponse]
    /\ isMuted = FALSE /\ isOutputMuted = FALSE
    /\ enabled = [k \in Objs |-> TRUE]
    /\ muted = [k \in Objs |-> FALSE]
    /\ captured = [k \in Objs |-> FALSE]
    /\ alive = TRUE
    /\ now = 0
    /\ pc = [k \in Objs |-> "none"]
    /\ dc = [k \in Objs |-> "none"]
    /\ stream = [k \in Objs |-> "none"]
    /\ audio = [k \in Objs |-> "none"]
    /\ sent = [k \in Objs |-> <<>>]
    /\ credential = [k \in Objs |-> NoCredential]
    /\ flow = [k \in Objs |-> "none"]
    /\ nStarts = 0
    /\ state = "idle" /\ error = "null" /\ transcript = <<>>
    /\ peerConnectionRef = Null /\ localStreamRef = Null
    /\ audioOutputRef = Null /\ dataChannelRef = Null
    /\ status = "idle" /\ isActive = FALSE
    /\ pcRef = Null /\ micStreamRef = Null /\ dcRef = Null
    /\ messages = (IF mounted = "VoiceCommand" THEN <<Welcome>> ELSE <<>>)
    /\ isLoading = FALSE /\ progress = 0 /\ sessionStatus = "active"
    /\ reply = NoReply /\ ticks = 0
    /\ last = "init"

Next == VcNext \/ CmdNext

Spec == Init /\ [][Next]_vars

\* The conversation log of PatientSimulator while its voice session is up.
SpecLog == Established /\ [][LogNext]_vars

\* ------------------------------------------------- establishment over time
\* The steps of the clock while a session is established: half the lifetime of
\* a credential, and a little more than all of it.
ClockSteps == {TokenLifetimeMs \div 2, TokenLifetimeMs + 1}

\* The two components without the frames of the control channel, and the clock.
LifeNext ==
    \/ VcStart \/ VcStop \/ VcUnmount
    \/ CmdStart \/ CmdStop
    \/ \E d \in ClockSteps : Tick(d)
    \/ \E k \in Objs :
        \/ VcTokenOk(k)
        \/ \E r \in TokenFailures : VcTokenFail(k, r)
        \/ VcMicOk(k) \/ VcMicFail(k)
        \/ VcOfferOk(k) \/ VcNegotiationFail(k) \/ VcSetLocalOk(k)
        \/ VcDataChannelOpen(k) \/ VcOnTrack(k)
        \/ \E to \in {"connected", "disconnected", "failed"} : VcConnectionStateChange(k, to)
        \/ CmdTokenOk(k) \/ CmdMicOk(k) \/ CmdNegotiationOk(k) \/ CmdSetRemoteOk(k)
        \/ CmdStepFail(k)
        \/ CmdDataChannelOpen(k) \/ CmdOnTrack(k)
        \/ \E to \in {"connected", "disconnected", "failed"} : CmdConnectionStateChange(k, to)

\* The awaited steps that need nothing but the browser itself and so always
\* settle: createOffer, setLocalDescription, setRemoteDescription.
LocalStep(k) ==
    \/ VcOfferOk(k) \/ VcSetLocalOk(k) \/ VcNegotiationFail(k)
    \/ (flow[k] \in {"offer", "setLocal"} /\ CmdNegotiationOk(k))
    \/ CmdSetRemoteOk(k)
    \/ (flow[k] \in {"offer", "setLocal", "setRemote"} /\ CmdStepFail(k))

\* Establishment over time: the network and the user may never answer, the
\* browser's own operations settle.
SpecLife == Init /\ [][LifeNext]_vars /\ \A k \in Objs : WF_vars(LocalStep(k))

\* VoiceChat with its two mute buttons, without the frames of the control
\* channel.
MuteNext ==
    \/ VcStart \/ VcStop \/ VcUnmount
    \/ VcToggleMute \/ VcToggleOutputMute
    \/ \E k \in Objs :
        \/ VcTokenOk(k)
        \/ \E r \in TokenFailures : VcTokenFail(k, r)
        \/ VcMicOk(k) \/ VcMicFail(k)
        \/ VcOfferOk(k) \/ VcNegotiationFail(k) \/ VcSetLocalOk(k)
        \/ VcDataChannelOpen(k) \/ VcOnTrack(k)
        \/ \E to \in {"connected", "disconnected", "failed"} : VcConnectionStateChange(k, to)

SpecMute == Init /\ [][MuteNext]_vars

\* ------------------------------------------------------------------ claims
InFlight == {"token", "mic", "offer", "setLocal", "exchange", "setRemote"}
Failed == {"failed:" \o st : st \in InFlight}
StopOps == {"stop", "stopNothing", "unmount", "unmountNothing"}
FailOps == {"tokenFail", "micFail", "negotiationFail"}

\* C1: stop is idempotent. In every reachable state, stopVoiceChat (stopVoice)
\* called twice in succession leaves the state idle, and the second call makes
\* no release call and changes no browser object.
C1_StopIdempotent ==
    /\ mounted = "VoiceChat" =>
        LET s1 == StopVoiceChat(VcCur)
            s2 == StopVoiceChat(s1)
        IN  /\ s1.state = "idle" /\ s2.state = "idle"
            /\ s2.rel = 0
            /\ s2.pc = s1.pc /\ s2.dc = s1.dc
            /\ s2.stream = s1.stream /\ s2.audio = s1.audio
    /\ mounted = "VoiceCommand" =>
        LET s1 == StopVoice(CmdCur)
            s2 == StopVoice(s1)
        IN  /\ s1.status = "idle" /\ s2.status = "idle"
            /\ s2.rel = 0
            /\ s2.pc = s1.pc /\ s2.dc = s1.dc /\ s2.stream = s1.stream

\* A stop (the unmount cleanup) that found nothing to release, after an earlier
\* stop closed a peer connection and stopped a stream.
C1_Witness ==
    /\ last = "unmountNothing" /\ state = "idle"
    /\ \E k \in Objs : pc[k] = "closed" /\ stream[k] = "stopped"

\* C2 (as claimed): once a start sequence has been stopped in flight (the state
\* is idle while the sequence still awaits), its continuation leaves the state
\* idle and creates no peer connection, data channel or stream.
C2_StopCancelsStart ==
    [][\A k \in Objs :
        (mounted = "VoiceChat" /\ state = "idle"
         /\ flow[k] \in InFlight /\ flow'[k] # flow[k])
        => /\ state' = "idle"
           /\ pc'[k] \in {"none", "closed"}
           /\ dc'[k] \in {"none", "closed"}
           /\ stream'[k] \in {"none", "stopped"}]_vars

\* C3 (as claimed): after getUserMedia rejected, the state is idle and the
\* start attempt created no peer connection.
C3_MicDeniedLeavesIdle ==
    /\ last = "micFail" => (state = "idle" /\ status = "idle" /\ error = "microphone")
    /\ \A k \in Objs : flow[k] = "failed:mic" => pc[k] = "none"

\* C3 (amended): a rejected getUserMedia is reported as a microphone failure and
\* moves the session to error; VoiceChat has created no peer connection in that
\* attempt, VoiceCommand has already created its peer connection and channel.
C3_MicDeniedIsError ==
    /\ last = "micFail" =>
        IF mounted = "VoiceChat"
        THEN state = "error" /\ error = "microphone"
        ELSE status = "error" /\ ~isActive
    /\ \A k \in Objs : flow[k] = "failed:mic" =>
        IF mounted = "VoiceChat"
        THEN pc[k] = "none" /\ dc[k] = "none" /\ stream[k] = "none"
        ELSE pc[k] # "none" /\ dc[k] # "none" /\ stream[k] = "none"

C3_Witness ==
    /\ mounted = "VoiceChat" /\ last = "micFail" /\ state = "error"
    /\ \E k \in Objs : flow[k] = "failed:mic"

\* C4 (as claimed): when a failed establishment step is reported, every peer
\* connection, data channel and stream of that start sequence is closed or
\* stopped and no ref holds it.
C4_NoPartialResources ==
    last \in FailOps =>
        \A k \in Objs : flow[k] \in Failed =>
            /\ pc[k] \in {"none", "closed"}
            /\ dc[k] \in {"none", "closed"}
            /\ stream[k] \in {"none", "stopped"}
            /\ k \notin {peerConnectionRef, dataChannelRef, localStreamRef,
                         pcRef, dcRef, micStreamRef}

\* C5 (as claimed): the error state is left only by a stop, to idle.
C5_ErrorTerminal ==
    [][(mounted = "VoiceChat" /\ state = "error" /\ state' # "error")
        => (state' = "idle" /\ last' \in StopOps)]_vars

\* C6 (as claimed): processing an error-type protocol event leaves the
\* lifecycle state unchanged.
C6_RemoteErrorKeepsState ==
    [][(mounted = "VoiceChat" /\ last' = "remoteError") => state' = state]_vars

\* C7: a frame that JSON.parse rejects changes neither the session state, nor a
\* log, nor a ref, nor any browser object: the channel stays open for the frames
\* that follow.
C7_MalformedIgnored ==
    [][last' = "malformed" =>
        UNCHANGED <<state, error, transcript, status, isActive, messages,
                    pc, dc, stream, audio, sent, flow,
                    peerConnectionRef, localStreamRef, audioOutputRef, dataChannelRef,
                    pcRef, micStreamRef, dcRef>>]_vars

\* A truncated frame was processed on an open channel after a valid frame had
\* added a transcript entry and moved the state to listening.
C7_Witness ==
    /\ last = "malformed" /\ state = "listening" /\ Len(transcript) = 1
    /\ \E k \in Objs : dc[k] = "open"

\* C8: the admission of a voice transcript. In every reachable log and at every
\* reachable time, a candidate (text, speaker) is discarded exactly when an
\* entry has the same text, the same speaker and a timestamp less than 2000 ms
\* from now, and is appended otherwise; ("Bonjour", user, t) then the same at
\* t + 500 ms gives one entry, at t + 5000 ms two.
C8_DedupRule ==
    /\ \A text \in Texts, isUser \in BOOLEAN :
        LET who == IF isUser THEN "user" ELSE "bot"
            within == \E i \in DOMAIN messages :
                        /\ messages[i].content = text
                        /\ messages[i].sender = who
                        /\ messages[i].timestamp - now < 2000
                        /\ now - messages[i].timestamp < 2000
        IN  onTranscript(messages, text, isUser, now) =
                IF within THEN messages
                ELSE messages \o <<[content |-> text, sender |-> who, timestamp |-> now]>>
    /\ LET first == onTranscript(<<>>, "Bonjour", TRUE, now)
       IN  /\ Len(first) = 1
           /\ Len(onTranscript(first, "Bonjour", TRUE, now + 500)) = 1
           /\ Len(onTranscript(first, "Bonjour", TRUE, now + 5000)) = 2

\* The log holds ("Bonjour", user) twice, 5000 ms apart, the second admitted
\* from a voice event.
C8_Witness ==
    /\ last = "event"
    /\ \E i, j \in DOMAIN messages :
        /\ i < j /\ j = Len(messages)
        /\ messages[i].content = "Bonjour" /\ messages[j].content = "Bonjour"
        /\ messages[i].sender = "user" /\ messages[j].sender = "user"
        /\ messages[j].timestamp = messages[i].timestamp + 5000

\* C9 (as claimed): no log holds two entries with the same text, the same
\* speaker and timestamps less than the window apart.
C9_LogIsDeduplicated ==
    /\ \A i, j \in DOMAIN messages :
        (i < j /\ messages[i].content = messages[j].content
               /\ messages[i].sender = messages[j].sender)
        => Abs(messages[i].timestamp - messages[j].timestamp) >= DedupWindowMs
    /\ \A i, j \in DOMAIN transcript :
        (i < j /\ transcript[i].text = transcript[j].text
               /\ transcript[i].isUser = transcript[j].isUser)
        => Abs(transcript[i].timestamp - transcript[j].timestamp) >= DedupWindowMs

\* C10 (as claimed): the timestamps of the conversation log never decrease in
\* insertion order.
C10_TimestampsMonotone ==
    \A i, j \in DOMAIN messages : i < j => messages[i].timestamp <= messages[j].timestamp

IsPrefix(a, b) == Len(a) <= Len(b) /\ SubSeq(b, 1, Len(a)) = a

\* C11: the logs are append-only. Every step leaves VoiceChat's transcript and
\* PatientSimulator's messages a prefix of their new value: no entry is removed,
\* reordered or rewritten, so text, speaker and timestamp of an entry never
\* change after insertion.
C11_AppendOnly ==
    [][IsPrefix(transcript, transcript') /\ IsPrefix(messages, messages')]_vars

\* A second entry, of the other speaker, was appended behind the first.
C11_Witness ==
    /\ last = "event" /\ Len(transcript) = 2
    /\ transcript[1].isUser /\ ~transcript[2].isUser

\* C12: end to end. In a VoiceChat session whose start sequence completed, whose
\* transport connected and whose channel opened, with nothing in the transcript
\* yet, the frame response.audio_transcript.done with a non-empty transcript T
\* leaves the transcript with exactly one entry, (T, remote), and the state
\* listening.
C12_FirstRemoteTranscript ==
    \A k \in Objs, T \in Texts :
        (mounted = "VoiceChat" /\ pc[k] = "connected" /\ dc[k] = "open"
         /\ transcript = <<>>)
        => LET s == VcOnMessage(VcCur, Msg("response.audio_transcript.done", T, "", ""), now)
           IN  /\ s.transcript = <<[text |-> T, isUser |-> FALSE, timestamp |-> now]>>
               /\ s.state = "listening"

\* The first start sequence ran to its end and the one frame processed since
\* left one remote entry and the state listening.
C12_Witness ==
    /\ mounted = "VoiceChat" /\ nStarts = 1 /\ last = "event"
    /\ state = "listening"
    /\ transcript = <<[text |-> "Bonjour", isUser |-> FALSE, timestamp |-> 0]>>
    /\ pc[1] = "connected" /\ dc[1] = "open"

\* C13: end to end. A VoiceChat session in state connected that processes
\* input_audio_buffer.speech_started moves to listening, and when the next frame
\* it processes is input_audio_buffer.speech_stopped it moves back to connected:
\* the states are connected, listening, connected, and neither frame touches the
\* transcript.
C13_SpeechStartedStopped ==
    [][/\ last' = "speechStarted@connected"
            => (state = "connected" /\ state' = "listening" /\ transcript' = transcript)
       /\ last' = "speechStopped@speechStarted@connected"
            => (last = "speechStarted@connected" /\ state = "listening"
                /\ state' = "connected" /\ transcript' = transcript)]_vars

\* The speech-stopped frame was processed directly after a speech-started frame
\* that arrived in state connected.
C13_Witness ==
    /\ mounted = "VoiceChat" /\ last = "speechStopped@speechStarted@connected"
    /\ state = "connected"
    /\ \E k \in Objs : dc[k] = "open"

\* C14: the lifecycle state is always exactly one of idle, connecting, connected,
\* speaking, listening, error; whatever frames arrive, the session is never in
\* speaking and listening at once.
C14_OneLifecycleState ==
    /\ state \in VoiceChatState
    /\ ~(state = "speaking" /\ state = "listening")

\* The remote end speaks (response.audio.delta) after a frame had moved the
\* session to listening and left a remote entry in the transcript.
C14_Witness ==
    /\ mounted = "VoiceChat" /\ last = "event" /\ state = "speaking"
    /\ Len(transcript) = 1 /\ ~transcript[1].isUser

\* C15 (as claimed): the session is connected only once the transport has
\* reported its connected state: while the state (VoiceCommand's status) is
\* connected, the peer connection the session holds is not one that has
\* reported nothing yet.
C15_ConnectedOnlyWhenTransportUp ==
    /\ (mounted = "VoiceChat" /\ state = "connected" /\ peerConnectionRef # Null)
        => pc[peerConnectionRef] # "new"
    /\ (mounted = "VoiceCommand" /\ status = "connected" /\ pcRef # Null)
        => pc[pcRef] # "new"

\* C16 (as claimed): when the transport reports disconnected or failed, the
\* session moves to error, in VoiceChat and in VoiceCommand, and no start
\* sequence begins.
C16_TransportLossIsError ==
    [][last' \in {"disconnected", "failed"}
        => /\ mounted = "VoiceChat" => state' = "error"
           /\ mounted = "VoiceCommand" => status' = "error"
           /\ nStarts' = nStarts /\ flow' = flow]_vars

\* C17 (as claimed): after an explicit stop, a failed transport or an unmount,
\* every peer connection and data channel is closed, every stream stopped, no
\* playback left playing, and every handle of the component is cleared.
C17_AllReleased ==
    [][last' \in StopOps \cup {"failed"}
        => /\ \A k \in Objs :
                /\ pc'[k] \in {"none", "closed"}
                /\ dc'[k] \in {"none", "closed"}
                /\ stream'[k] \in {"none", "stopped"}
                /\ audio'[k] # "playing"
           /\ peerConnectionRef' = Null /\ dataChannelRef' = Null
           /\ localStreamRef' = Null /\ audioOutputRef' = Null
           /\ pcRef' = Null /\ dcRef' = Null /\ micStreamRef' = Null]_vars

\* The place of a release call in the order the stop is to follow.
StopRank(c) ==
    CASE c = "dataChannel.close" -> 1
      [] c = "peerConnection.close" -> 2
      [] c = "track.stop" -> 3
      [] c = "audio.pause" -> 4

\* C18 (as claimed): a stop releases in the order control channel, peer
\* connection, media tracks, playback sink, and after it each of the four the
\* session held is released: the channel and the connection closed, the stream
\* stopped, the sink no longer playing.
C18_StopOrder ==
    /\ mounted = "VoiceChat" =>
        LET s == StopVoiceChat(VcCur)
            c == StopVoiceChatCalls(VcCur)
        IN  /\ \A i, j \in DOMAIN c : i < j => StopRank(c[i]) < StopRank(c[j])
            /\ dataChannelRef # Null => s.dc[dataChannelRef] = "closed"
            /\ peerConnectionRef # Null => s.pc[peerConnectionRef] = "closed"
            /\ localStreamRef # Null => s.stream[localStreamRef] = "stopped"
            /\ audioOutputRef # Null => s.audio[audioOutputRef] # "playing"
    /\ mounted = "VoiceCommand" =>
        LET s == StopVoice(CmdCur)
            c == StopVoiceCalls(CmdCur)
        IN  /\ \A i, j \in DOMAIN c : i < j => StopRank(c[i]) < StopRank(c[j])
            /\ dcRef # Null => s.dc[dcRef] = "closed"
            /\ pcRef # Null =>
                (s.pc[pcRef] = "closed" /\ s.audio[pcRef] # "playing")
            /\ micStreamRef # Null => s.stream[micStreamRef] = "stopped"

\* C19 (as claimed): at most one transport exists at any time: of the peer
\* connections created so far, at most one is not closed.
C19_OneTransport ==
    Cardinality({k \in Objs : pc[k] \notin {"none", "closed"}}) <= 1

\* C20 (as claimed): at most one start sequence is in progress at any time, and
\* a start is never taken while the session is connecting or connected.
C20_OneFlow ==
    /\ [](Cardinality({k \in Objs : flow[k] \in InFlight}) <= 1)
    /\ [][last' = "start"
            => /\ state \notin {"connecting", "connected"}
               /\ status \notin {"connecting", "connected"}]_vars

C22_SessionControlContent ==
    \A k \in Objs : \A i \in DOMAIN sent[k] :
        LET session == sent[k][i].session IN
        /\ {"instructions", "input_audio_format", "output_audio_format",
            "input_audio_transcription", "turn_detection"} \subseteq DOMAIN session
        /\ session.instructions = credential[k].instructions
        /\ "model" \in DOMAIN session.input_audio_transcription
        /\ {"threshold", "silence_duration_ms"} \subseteq DOMAIN session.turn_detection

\* The places of call c in the sequence of calls.
Places(calls, c) == {i \in DOMAIN calls : calls[i] = c}

\* C23: within one establishment the control channel is created once, and it is
\* created and the local tracks are attached before the offer is generated; the
\* offer is generated once and applied as the local description before the
\* exchange with the remote endpoint. The calls agree with the objects the
\* start sequence has created.
C23_ChannelAndTracksBeforeOffer ==
    \A k \in Objs :
        LET calls == IF mounted = "VoiceChat" THEN VcStartCalls(flow[k])
                     ELSE CmdStartCalls(flow[k])
        IN  /\ Cardinality(Places(calls, "createDataChannel")) <= 1
            /\ Cardinality(Places(calls, "createOffer")) <= 1
            /\ \A o \in Places(calls, "createOffer") :
                    /\ \E c \in Places(calls, "createDataChannel") : c < o
                    /\ \E a \in Places(calls, "addTrack") : a < o
            /\ \A x \in Places(calls, "fetch realtime") :
                    \E o \in Places(calls, "createOffer") :
                        \E l \in Places(calls, "setLocalDescription") : o < l /\ l < x
            /\ (Places(calls, "createDataChannel") # {}) <=> (dc[k] # "none")
            /\ (Places(calls, "addTrack") # {}) <=> (stream[k] # "none")

\* VoiceCommand's start sequence is at the exchange with the remote endpoint:
\* its channel exists, its stream is live, the offer is applied.
C23_Witness ==
    /\ mounted = "VoiceCommand"
    /\ \E k \in Objs : flow[k] = "exchange" /\ dc[k] = "connecting" /\ stream[k] = "live"

\* The event types of the protocol's taxonomy among those of the model.
Taxonomy == EventTypes \ {"session.created",
                          "conversation.item.input_audio_transcription.failed"}

\* C24 (as claimed): on an open channel, a well-formed frame whose type is not in
\* the taxonomy, with or without a transcript field, changes neither the
\* session state nor a log, and so triggers no onTranscript call.
C24_UnknownTypeIgnored ==
    \A p \in PayloadsOf(Texts) :
        (p.wf /\ p.type \notin Taxonomy /\ \E k \in Objs : dc[k] = "open")
        => IF mounted = "VoiceChat"
           THEN LET s == VcOnMessage(VcCur, p, now)
                IN  s.state = state /\ s.transcript = transcript /\ s.error = error
           ELSE /\ CmdOnMessage(messages, p, now) = messages
                /\ CmdTranscriptCalls(JsonParse(p)) = <<>>

\* C25 (as claimed): in state connected, the finalized user transcript event
\* moves the session to listening, as the speech-started event does.
C25_UserTranscriptListens ==
    \A T \in Texts :
        (mounted = "VoiceChat" /\ state = "connected" /\ \E k \in Objs : dc[k] = "open")
        => /\ VcOnMessage(VcCur, Msg("input_audio_buffer.speech_started", "", "", ""),
                          now).state = "listening"
           /\ VcOnMessage(VcCur,
                          Msg("conversation.item.input_audio_transcription.completed",
                              T, "", ""),
                          now).state = "listening"

\* What the history records of a step that processes a well-formed frame.
EventOps == {"event", "remoteError", "speechStarted", "speechStarted@connected",
             "speechStopped", "speechStopped@speechStarted@connected"}

\* C26 (as claimed): the state changes along the specified transitions only: a
\* step enters speaking only by processing a frame in connected or listening,
\* and no frame processed in idle, connecting or error enters speaking,
\* listening or connected.
C26_SpecifiedTransitionsOnly ==
    [][mounted = "VoiceChat" =>
        /\ (state' = "speaking" /\ state # "speaking")
            => (last' \in EventOps /\ state \in {"connected", "listening"})
        /\ (last' \in EventOps /\ state \in {"idle", "connecting", "error"})
            => state' \notin ({"speaking", "listening", "connected"} \ {state})]_vars

\* C28 (as claimed): a failed credential request is reported by kind, the
\* missing issuing key differently from every other failure, and the start
\* sequence it aborts has created no microphone stream and no transport.
C28_CredentialFailureKinds ==
    last = "tokenFail" =>
        /\ \A k \in Objs : flow[k] = "failed:token" =>
                (stream[k] = "none" /\ pc[k] = "none" /\ dc[k] = "none")
        /\ \A r \in TokenFailures \ {"noKey"} :
                IF mounted = "VoiceChat" THEN VcTokenError("noKey") # VcTokenError(r)
                ELSE CmdTokenError("noKey") # CmdTokenError(r)

\* C29: each start issues exactly one credential request. A start sequence
\* begins awaiting its own request in the step of the user's start and in no
\* other step; a failed sequence never moves again (no retry); a sequence gets
\* past the credential only from awaiting its own request, with the response to
\* that request as its credential (nothing cached or reused).
C29_OneCredentialRequestPerStart ==
    [][\A k \in Objs :
        /\ (flow'[k] # flow[k] /\ flow[k] = "none")
            => (flow'[k] = "token" /\ last' = "start"
                /\ nStarts' = nStarts + 1 /\ k = nStarts')
        /\ flow'[k] = "token" => flow[k] \in {"none", "token"}
        /\ flow[k] \in Failed => flow'[k] = flow[k]
        /\ (flow'[k] = "mic" /\ flow[k] # "mic")
            => (flow[k] = "token" /\ credential[k] = NoCredential
                /\ credential'[k] = RtcTokenResponse(SessionTypeOf(mounted), now))
        /\ credential'[k] # credential[k] => flow[k] = "token"]_vars

\* The second start has received its own, later credential after the first
\* start sequence had received one and run to its end.
C29_Witness ==
    /\ mounted = "VoiceChat" /\ nStarts = 2
    /\ flow[1] = "done" /\ flow[2] = "mic"
    /\ credential[1] # NoCredential /\ credential[2] # NoCredential
    /\ credential[2].expiresAt > credential[1].expiresAt

\* C27 (as claimed): the session never stays in connecting forever: from
\* connecting it eventually reaches connected, error or idle, even when the
\* credential request, the microphone prompt or the exchange never completes.
C27_ConnectingEnds ==
    /\ (mounted = "VoiceChat" /\ state = "connecting") ~> (state # "connecting")
    /\ (mounted = "VoiceCommand" /\ status = "connecting") ~> (status # "connecting")

\* C30 (as claimed): a credential is not used after its expiresAt: the offer is
\* posted with the bearer secret, and the session-control message that carries
\* something of the credential is sent, no later than the credential expires.
C30_NoUseAfterExpiry ==
    [][\A k \in Objs :
        /\ (flow[k] = "setLocal" /\ flow'[k] = "exchange")
            => now <= credential[k].expiresAt
        /\ (sent'[k] # sent[k] /\ DOMAIN sent'[k][1].session # {})
            => now <= credential[k].expiresAt]_vars

\* The parsed bodies a request may carry: userId and sessionType present, empty
\* or absent.
RequestBodies ==
    {[userId |-> u, sessionType |-> st] :
        u \in UserIds, st \in {"chat", "ecos_simulation", "autre", ""}}
    \cup {[userId |-> u] : u \in UserIds}
    \cup {[sessionType |-> st] : st \in {"chat", "ecos_simulation"}}

\* C31: POST /api/rtc-token decides in this order. A body without userId gets
\* 400 and no credential; otherwise, with no OPENAI_API_KEY, 500 and no
\* credential; otherwise 200 with the secret, expiresAt one hour after the
\* request, the body's sessionType ('chat' when absent) echoed and the
\* instructions of that sessionType: the patient text iff it is
\* 'ecos_simulation', the assistant text for every other value. The answer each
\* start sequence received is the one this rule gives for the component's userId,
\* its sessionType and the server's key.
C31_RtcTokenDecision ==
    /\ \A body \in RequestBodies, key \in ApiKeys :
        LET r == PostRtcToken(body, key, now)
            noUser == "userId" \notin DOMAIN body \/ body.userId = ""
            st == IF "sessionType" \in DOMAIN body THEN body.sessionType ELSE "chat"
        IN  /\ noUser => (r.status = 400 /\ "client_secret" \notin DOMAIN r.body)
            /\ (~noUser /\ key = "") => (r.status = 500 /\ "client_secret" \notin DOMAIN r.body)
            /\ (~noUser /\ key # "") =>
                /\ r.status = 200
                /\ r.body.client_secret = key
                /\ r.body.expiresAt = now + 3600000
                /\ r.body.sessionType = st
                /\ (r.body.instructions = "patient virtuel") <=> (st = "ecos_simulation")
                /\ (r.body.instructions = "assistant educatif") <=> (st # "ecos_simulation")
    /\ \A k \in Objs :
        /\ response[k].status = 400 => userId = ""
        /\ (response[k].status = 500 /\ response[k].body.error = "OpenAI API key not configured")
            => (userId # "" /\ apiKey = "")
        /\ response[k].status = 200 =>
            /\ userId # "" /\ apiKey # ""
            /\ credential[k] = response[k].body
            /\ response[k].body.client_secret = apiKey
            /\ response[k].body.expiresAt <= now + 3600000
            /\ response[k].body.sessionType = SessionTypeOf(mounted)
            /\ (response[k].body.instructions = "patient virtuel") <=> (mounted = "VoiceCommand")

\* PatientSimulator's VoiceCommand received, half an hour into the page's life,
\* a credential with the patient instructions that expires an hour later.
C31_Witness ==
    /\ mounted = "VoiceCommand" /\ last = "step" /\ flow[1] = "mic"
    /\ now = 1800000
    /\ response[1].status = 200
    /\ response[1].body.sessionType = "ecos_simulation"
    /\ response[1].body.instructions = "patient virtuel"
    /\ response[1].body.expiresAt = now + TokenLifetimeMs

\* C32 (as claimed): VoiceChat's recorded error cause is set exactly when the
\* lifecycle state is error: every entry into error records a cause, and no cause
\* stays set once the state is anything else.
C32_CauseIffError ==
    mounted = "VoiceChat" => ((error # "null") <=> (state = "error"))

\* C33 (as claimed): whenever VoiceChat's state is idle the session holds no
\* resource: no peer connection handle, no open control channel, no live local
\* track and no playback element, also after a stop issued while a start was
\* awaiting the credential or the microphone.
C33_IdleHoldsNothing ==
    (mounted = "VoiceChat" /\ state = "idle") =>
        /\ peerConnectionRef = Null /\ localStreamRef = Null /\ audioOutputRef = Null
        /\ \A k \in Objs :
            /\ pc[k] \in {"none", "closed"}
            /\ dc[k] # "open"
            /\ stream[k] # "live"
            /\ audio[k] # "playing"

\* C34 (as claimed): through VoiceCommand and PatientSimulator, one
\* conversation.item.input_audio_transcription.completed frame with a non-empty
\* transcript T adds exactly one entry (T, user) to the conversation log.
C34_OneEntryPerUserTranscript ==
    \A T \in Texts :
        CmdOnMessage(messages,
                     Msg("conversation.item.input_audio_transcription.completed", T, "", ""),
                     now)
        = Append(messages, [content |-> T, sender |-> "user", timestamp |-> now])

\* C34 (amended): the frame makes three onTranscript calls, each with (T, user),
\* and adds one entry (T, user, now) when no entry of the log has the same text,
\* the same speaker and a timestamp less than 2000 ms from now; when one has, it
\* adds none. It never adds more than one.
C34_OneEntryUnlessRecent ==
    \A T \in Texts :
        LET p == Msg("conversation.item.input_audio_transcription.completed", T, "", "")
            recent == \E i \in DOMAIN messages :
                        /\ messages[i].content = T
                        /\ messages[i].sender = "user"
                        /\ Abs(messages[i].timestamp - now) < 2000
        IN  /\ CmdTranscriptCalls(JsonParse(p))
                = <<[text |-> T, isUser |-> TRUE], [text |-> T, isUser |-> TRUE],
                    [text |-> T, isUser |-> TRUE]>>
            /\ CmdOnMessage(messages, p, now)
                = IF recent THEN messages
                  ELSE Append(messages, [content |-> T, sender |-> "user", timestamp |-> now])

\* The frame was processed 5000 ms after the same utterance had been logged,
\* and added its one entry behind it.
C34_Witness ==
    /\ last = "userTranscript" /\ now = 5000
    /\ messages = <<Welcome, [content |-> "Bonjour", sender |-> "user", timestamp |-> 0],
                    [content |-> "Bonjour", sender |-> "user", timestamp |-> 5000]>>

\* C35 (as claimed): a remote reply delivered as incremental delta frames and
\* one final done frame contributes one entry, the final text: a step that
\* processes a response.text.delta frame adds no entry to the conversation log.
C35_DeltasAddNoEntry ==
    [][last' = "textDelta" => messages' = messages]_vars

\* C36: the dedup window is exactly |candidate time - entry time| < 2000 ms,
\* against every entry of the log. In every reachable log, a candidate with a
\* same-text same-speaker entry at most 1999 ms away, wherever it stands in the
\* log, is discarded, and a candidate whose same-text same-speaker entries are
\* all 2000 ms or more away is admitted; after ("Bonjour", user, t) alone the
\* same candidate is discarded at t + 1999 and admitted at t + 2000, and an
\* entry of another text or another speaker in between shields nothing.
C36_WindowExact ==
    /\ \A T \in Texts, isUser \in BOOLEAN :
        LET matches == {i \in DOMAIN messages :
                            messages[i].content = T /\ messages[i].sender = Sender(isUser)}
            after == onTranscript(messages, T, isUser, now)
        IN  /\ (\E i \in matches : Abs(now - messages[i].timestamp) <= 1999)
                => after = messages
            /\ (\A i \in matches : Abs(now - messages[i].timestamp) >= 2000)
                => (Len(after) = Len(messages) + 1
                    /\ after[Len(after)] = [content |-> T, sender |-> Sender(isUser),
                                            timestamp |-> now])
    /\ LET first == [content |-> "Bonjour", sender |-> "user", timestamp |-> now]
           otherText == [content |-> "Merci", sender |-> "user", timestamp |-> now + 1000]
           otherSpeaker == [content |-> "Bonjour", sender |-> "bot", timestamp |-> now + 1000]
       IN  /\ onTranscript(<<first>>, "Bonjour", TRUE, now + 1999) = <<first>>
           /\ Len(onTranscript(<<first>>, "Bonjour", TRUE, now + 2000)) = 2
           /\ onTranscript(<<first, otherText>>, "Bonjour", TRUE, now + 1999)
                = <<first, otherText>>
           /\ onTranscript(<<first, otherSpeaker>>, "Bonjour", TRUE, now + 1999)
                = <<first, otherSpeaker>>
           /\ Len(onTranscript(<<first, otherText>>, "Bonjour", TRUE, now + 2000)) = 3

\* A user transcript was admitted exactly 2000 ms after the same text of the same
\* speaker, with an entry of another text between the two.
C36_Witness ==
    /\ last = "userTranscript" /\ now = 2000 /\ Len(messages) = 4
    /\ messages[2] = [content |-> "Bonjour", sender |-> "user", timestamp |-> 0]
    /\ messages[3].content = "Merci"
    /\ messages[4] = [content |-> "Bonjour", sender |-> "user", timestamp |-> 2000]

\* C37 (as claimed): VoiceChat's input mute flag mirrors the microphone. Whenever
\* a local stream exists, isMuted is true iff its audio track is disabled, after
\* any sequence of start, toggleMute and stop; toggleMute with no local stream
\* changes nothing.
C37_MuteMirrorsMicrophone ==
    /\ [](localStreamRef # Null => (isMuted <=> ~enabled[localStreamRef]))
    /\ [][last' = "toggleMuteNothing" => UNCHANGED <<isMuted, enabled>>]_vars

\* C38 (as claimed): VoiceChat's output mute flag mirrors the playback sink.
\* Whenever a playback element exists, isOutputMuted equals its muted property,
\* for every interleaving of remote-track arrival and toggleOutputMute;
\* toggleOutputMute with no playback element changes nothing.
C38_OutputMuteMirrorsSink ==
    /\ [](audioOutputRef # Null => (isOutputMuted = muted[audioOutputRef]))
    /\ [][last' = "toggleOutputMuteNothing" => UNCHANGED <<isOutputMuted, muted>>]_vars

\* C39: in VoiceCommand, isActive is true exactly when status is 'connected',
\* after any sequence of startVoice (success or failure), stopVoice and
\* handleClick; status is one of idle, connecting, connected, error; and a click
\* starts when isActive is false and stops when it is true.
C39_ActiveIffConnected ==
    /\ [](mounted = "VoiceCommand" =>
            /\ isActive <=> (status = "connected")
            /\ status \in {"idle", "connecting", "connected", "error"})
    /\ [][mounted = "VoiceCommand" =>
            /\ last' = "start" => (~isActive /\ status' = "connecting")
            /\ last' \in {"stop", "stopNothing"} => (isActive /\ status' = "idle")]_vars

\* The second session of VoiceCommand was stopped by a click: inactive and
\* idle, after a first start had failed.
C39_Witness ==
    /\ mounted = "VoiceCommand" /\ last = "stop"
    /\ ~isActive /\ status = "idle"
    /\ flow[1] \in Failed /\ flow[2] = "done"
====
